---- MODULE Spec2Model ----
(***************************************************************************)
(* Status-sync client of the iCloud Backup add-on (frontend/script.js):   *)
(* the timer-driven status poll loop, the three views it reconciles, and   *)
(* the verification-code submission flow.                                  *)
(*                                                                         *)
(* Strings the code inspects character by character (the code input) are   *)
(* sequences of one-character strings.  Displayed texts are sequences of   *)
(* fragments, so that JavaScript's + on strings is \o here.                *)
(* Time is counted in milliseconds, relative to the armed timers.          *)
(***************************************************************************)
EXTENDS Naturals, Sequences, FiniteSets, TLC

VARIABLES
    loadingDisplay,       \* style.display of #loadingStatus
    runningDisplay,       \* style.display of #runningStatus
    verificationDisplay,  \* style.display of #verificationView
    activeElement,        \* document.activeElement: "code" or "body"
    codeValue,            \* value of the #code input
    messageClass,         \* className of #message
    messageText,          \* textContent of #message
    messageDisplay,       \* style.display of #message
    submitDisabled,       \* disabled of #submitBtn
    submitText,           \* textContent of #submitBtn
    statusPollingActive,  \* the module-level flag
    currentLang,          \* the module-level language
    statusInFlight,       \* number of fetch('status') promises not yet settled
    sendInFlight,         \* the code fields of the POSTs to send_code not yet settled
    intervalRemaining,    \* ms until the setInterval callback is due
    timeouts,             \* ms until each pending setTimeout(checkStatus) is due
    lastEvent,            \* history: the handler that ran last
    lastStatus,           \* history: <<requires_2fa>> of the last status passed to updateView
    navigatorLanguage,    \* navigator.language
    translated,           \* history: <<key, t(key)>> of a text lookup, or <<>>
    sessionState,         \* server: the process-wide SessionState
    processing,           \* server: the mutations in flight at an external capability
    submitQueue,          \* server: the submitted codes waiting their turn
    reported,             \* server history: <<requires_2fa, SessionState read>> of the last reportStatus
    accepted,             \* server history: a submitCode succeeded and no re-entry followed
    statusPending,        \* the unsettled status requests in issue order: <<>> until
                          \* the server has answered, then <<requires_2fa>>
    superseded            \* history: how many of the oldest unsettled status requests
                          \* were issued before a request whose response has been applied

clientVars == <<loadingDisplay, runningDisplay, verificationDisplay, activeElement,
          codeValue, messageClass, messageText, messageDisplay,
          submitDisabled, submitText, statusPollingActive, currentLang,
          statusInFlight, sendInFlight, intervalRemaining, timeouts,
          lastEvent, lastStatus>>

langVars == <<navigatorLanguage, translated>>
serverVars == <<sessionState, processing, submitQueue, reported, accepted>>
syncVars == <<statusPending, superseded>>

\* what the client script does not write
envVars == <<langVars, serverVars, syncVars>>

vars == <<loadingDisplay, runningDisplay, verificationDisplay, activeElement,
          codeValue, messageClass, messageText, messageDisplay,
          submitDisabled, submitText, statusPollingActive, currentLang,
          statusInFlight, sendInFlight, intervalRemaining, timeouts,
          lastEvent, lastStatus, navigatorLanguage, translated,
          sessionState, processing, submitQueue, reported, accepted,
          statusPending, superseded>>

\* the client's state apart from the history of handlers
pageVars == <<loadingDisplay, runningDisplay, verificationDisplay, activeElement,
              codeValue, messageClass, messageText, messageDisplay,
              submitDisabled, submitText, statusPollingActive, currentLang,
              statusInFlight, sendInFlight, intervalRemaining, timeouts,
              lastStatus>>

viewVars == <<loadingDisplay, runningDisplay, verificationDisplay>>
messageVars == <<messageClass, messageText, messageDisplay>>
buttonVars == <<submitDisabled, submitText>>
timerVars == <<intervalRemaining, timeouts>>

-----------------------------------------------------------------------------
(* Bounds of the model *)

\* POSTs to send_code that may be unsettled at once
MaxSendInFlight == 2
\* status requests that may be unsettled at once
MaxStatusInFlight == 2
\* follow-up timeouts that may be pending at once
MaxTimeouts == 1
\* longest raw input of the exhaustive input specification
MaxRawLen == 7
\* longest navigator.language of the language specification
MaxLocaleLen == 5
\* submitted codes the server keeps waiting while another is processed
MaxQueued == 1

-----------------------------------------------------------------------------
(* Program constants *)

STATUS_POLL_INTERVAL == 2000
FOLLOWUP_DELAY == 1000
CodeLength == 6

translations ==
    [en |-> [title |-> "iCloud Backup",
             runningTitle |-> "Everything is running",
             runningMessage |-> "The iCloud Backup service is active and monitoring your backups.",
             serviceActive |-> "Service active",
             twoFactorTitle |-> "Two-Factor Authentication",
             twoFactorMessage |-> "Please enter the 6-digit verification code you received on your Apple device.",
             codeLabel |-> "Verification Code:",
             verifyButton |-> "Verify",
             sendingButton |-> "Sending...",
             loadingStatus |-> "Loading status...",
             errorExact6Digits |-> "Please enter exactly 6 digits.",
             verificationSuccess |-> "Verification successful!",
             verificationFailed |-> "Verification failed. Please try again.",
             sendError |-> "Send error: ",
             serverError |-> "Server error: "],
     de |-> [title |-> "iCloud Backup",
             runningTitle |-> "Alles laeuft",
             runningMessage |-> "Der iCloud Backup Service ist aktiv und ueberwacht Ihre Backups.",
             serviceActive |-> "Service aktiv",
             twoFactorTitle |-> "Zwei-Faktor-Authentifizierung",
             twoFactorMessage |-> "Bitte geben Sie den 6-stelligen Verifizierungscode ein, den Sie auf Ihrem Apple-Geraet erhalten haben.",
             codeLabel |-> "Verifizierungscode:",
             verifyButton |-> "Verifizieren",
             sendingButton |-> "Wird gesendet...",
             loadingStatus |-> "Lade Status...",
             errorExact6Digits |-> "Bitte geben Sie genau 6 Ziffern ein.",
             verificationSuccess |-> "Verifizierung erfolgreich!",
             verificationFailed |-> "Verifizierung fehlgeschlagen. Bitte versuchen Sie es erneut.",
             sendError |-> "Fehler beim Senden: ",
             serverError |-> "Server-Fehler: "]]

-----------------------------------------------------------------------------
(* Language detection and text lookup *)

\* String.prototype.toLowerCase, on the letters the modelled locales use
LowerOf(c) ==
    CASE c = "D" -> "d" [] c = "E" -> "e" [] c = "F" -> "f" [] c = "N" -> "n"
      [] c = "R" -> "r" [] c = "S" -> "s" [] c = "U" -> "u" [] OTHER -> c

toLowerCase(s) == [i \in 1..Len(s) |-> LowerOf(s[i])]

\* s.split('-')[0]: the characters before the first '-'
RECURSIVE SplitFirst(_)
SplitFirst(s) ==
    IF s = <<>> \/ Head(s) = "-" THEN <<>>
    ELSE <<Head(s)>> \o SplitFirst(Tail(s))

\* the property names of translations, spelled as character sequences
LangName(code) ==
    CASE code = <<"e", "n">> -> "en"
      [] code = <<"d", "e">> -> "de"
      [] OTHER -> ""

\* faulty variant: the locale is not lower-cased
detectLanguage_CaseSensitive(browserLang) ==
    LET langCode == LangName(SplitFirst(browserLang))
    IN  IF langCode \in DOMAIN translations THEN langCode ELSE "en"

detectLanguage(browserLang) ==
    LET langCode == LangName(SplitFirst(toLowerCase(browserLang)))
    IN  IF langCode \in DOMAIN translations THEN langCode ELSE "en"

\* navigator.language values of the modelled browsers
BrowserLangs ==
    { <<"e", "n", "-", "U", "S">>, <<"d", "e", "-", "D", "E">> }

\* characters of the locales of the language specification
LocaleAlphabet == {"d", "e", "n", "D", "E", "-"}

AllLocales == UNION { [1..n -> LocaleAlphabet] : n \in 1..MaxLocaleLen }

\* translations[lang][key], "" standing for undefined (both are falsy)
Lookup(lang, key) ==
    IF key \in DOMAIN translations[lang] THEN translations[lang][key] ELSE ""

t(key) ==
    IF Lookup(currentLang, key) # "" THEN Lookup(currentLang, key)
    ELSE IF Lookup("en", key) # "" THEN Lookup("en", key)
    ELSE key

-----------------------------------------------------------------------------
(* The code input *)

Digits == {"0", "1", "2", "3", "4", "5", "6", "7", "8", "9"}
WhiteSpace == {" "}

\* String.prototype.trim
RECURSIVE TrimStart(_)
TrimStart(s) ==
    IF s # <<>> /\ Head(s) \in WhiteSpace THEN TrimStart(Tail(s)) ELSE s

RECURSIVE TrimEnd(_)
TrimEnd(s) ==
    IF s # <<>> /\ s[Len(s)] \in WhiteSpace
    THEN TrimEnd(SubSeq(s, 1, Len(s) - 1)) ELSE s

trim(s) == TrimEnd(TrimStart(s))

IsDigit(c) == c \in Digits

\* replace(/\D/g, '')
StripNonDigits(s) == SelectSeq(s, IsDigit)

\* faulty variant: the non-digits are not removed
cleanCode_TrimOnly(raw) == trim(raw)

\* const cleanCode = codeInput.value.trim().replace(/\D/g, '')
cleanCode(raw) == StripNonDigits(trim(raw))

\* faulty variant: only inputs that are too short are rejected
Rejected_TooShortOnly(clean) == Len(clean) < CodeLength

\* the validation of submitForm: cleanCode.length !== 6 rejects
Rejected(clean) == Len(clean) # CodeLength

\* characters an operator types in the exhaustive input specification
RawAlphabet == {"1", "2", "-", " "}

AllRaw == UNION { [1..n -> RawAlphabet] : n \in 0..MaxRawLen }

\* inputs an operator types in the full specification
RawInputs ==
    { <<>>,
      <<"1", "2", "3", "-", "4", "5", "6">>,
      <<"1", "2", "3", "4", "5">> }

-----------------------------------------------------------------------------
(* The page as loaded, before any script runs: the loading view is shown,  *)
(* the other two views and the message are hidden, the button is enabled.  *)

PageMarkup ==
    /\ loadingDisplay = "block"
    /\ runningDisplay = "none"
    /\ verificationDisplay = "none"
    /\ activeElement = "body"
    /\ codeValue = <<>>
    /\ messageClass = ""
    /\ messageText = <<>>
    /\ messageDisplay = "none"
    /\ submitDisabled = FALSE

\* the code input and the submit button are part of the verification view
CodeEntryVisible == verificationDisplay = "block"

-----------------------------------------------------------------------------
(* Status polling *)

\* checkStatus up to its first await: fetch('status') is issued
checkStatus ==
    /\ statusInFlight < MaxStatusInFlight
    /\ statusInFlight' = statusInFlight + 1

\* faulty variant: the 2FA branch does not hide the running view
updateView_KeepsRunning(status) ==
    /\ loadingDisplay' = "none"
    /\ IF status.requires_2fa
       THEN /\ UNCHANGED runningDisplay
            /\ verificationDisplay' = "block"
            /\ activeElement' = "code"
       ELSE /\ verificationDisplay' = "none"
            /\ runningDisplay' = "block"
            /\ activeElement' = "body"

\* faulty variant: the loading view is not hidden
updateView_KeepsLoading(status) ==
    /\ UNCHANGED loadingDisplay
    /\ IF status.requires_2fa
       THEN /\ runningDisplay' = "none"
            /\ verificationDisplay' = "block"
            /\ activeElement' = "code"
       ELSE /\ verificationDisplay' = "none"
            /\ runningDisplay' = "block"
            /\ activeElement' = "body"

\* updateView(status).  Hiding the view that holds the focused input moves
\* the focus back to the document body.
updateView(status) ==
    /\ loadingDisplay' = "none"
    /\ IF status.requires_2fa
       THEN /\ runningDisplay' = "none"
            /\ verificationDisplay' = "block"
            /\ activeElement' = "code"
       ELSE /\ verificationDisplay' = "none"
            /\ runningDisplay' = "block"
            /\ activeElement' = "body"

\* faulty variant: a failed status request falls back to the loading view
checkStatusCatch_ShowsLoading ==
    /\ loadingDisplay' = "block"
    /\ runningDisplay' = "none"
    /\ verificationDisplay' = "none"
    /\ UNCHANGED <<activeElement, messageVars, statusPollingActive>>

\* faulty variant: a failed status request stops the polling
checkStatusCatch_StopsPolling ==
    /\ statusPollingActive' = FALSE
    /\ UNCHANGED <<viewVars, activeElement, messageVars>>

\* the catch block of checkStatus: console.error, the view is kept
checkStatusCatch ==
    UNCHANGED <<viewVars, activeElement, messageVars, statusPollingActive>>

\* bodies a 2xx status response carries: the status endpoint answers
\* {"requires_2fa": bool}; a body that parses to something else is not part
\* of its interface
StatusBodies == { [requires_2fa |-> b] : b \in BOOLEAN }

\* ways a status request fails: fetch rejects, response.ok is false,
\* response.json() rejects
StatusFailures == {"status_transport", "status_http", "status_json"}

\* a status request settles with a 2xx response and a parsable body
StatusResponse(data) ==
    /\ statusInFlight > 0
    /\ statusInFlight' = statusInFlight - 1
    /\ updateView(data)
    /\ lastEvent' = "status_ok"
    /\ lastStatus' = <<data.requires_2fa>>
    /\ UNCHANGED <<codeValue, messageVars, buttonVars, statusPollingActive,
                   currentLang, sendInFlight, timerVars>>

\* a status request settles in the catch block
StatusFailure(kind) ==
    /\ statusInFlight > 0
    /\ statusInFlight' = statusInFlight - 1
    /\ checkStatusCatch
    /\ lastEvent' = kind
    /\ UNCHANGED <<codeValue, buttonVars, currentLang, sendInFlight, timerVars,
                   lastStatus>>

\* a status request settles, one way or the other
StatusSettles ==
    \/ \E data \in StatusBodies : StatusResponse(data)
    \/ \E kind \in StatusFailures : StatusFailure(kind)

\* faulty variant: the interval polls only until the first view is rendered
PollTick_OnlyWhileLoading ==
    /\ intervalRemaining = 0
    /\ IF statusPollingActive /\ loadingDisplay = "block"
         THEN checkStatus
         ELSE UNCHANGED statusInFlight
    /\ intervalRemaining' = STATUS_POLL_INTERVAL
    /\ lastEvent' = IF statusPollingActive /\ loadingDisplay = "block"
                      THEN "poll"
                      ELSE "poll_skipped"
    /\ UNCHANGED <<viewVars, activeElement, codeValue, messageVars, buttonVars,
                   statusPollingActive, currentLang, sendInFlight, timeouts,
                   lastStatus>>

\* the setInterval callback of startStatusPolling; the interval re-arms itself
PollTick ==
    /\ intervalRemaining = 0
    /\ IF statusPollingActive THEN checkStatus ELSE UNCHANGED statusInFlight
    /\ intervalRemaining' = STATUS_POLL_INTERVAL
    /\ lastEvent' = IF statusPollingActive THEN "poll" ELSE "poll_skipped"
    /\ UNCHANGED <<viewVars, activeElement, codeValue, messageVars, buttonVars,
                   statusPollingActive, currentLang, sendInFlight, timeouts,
                   lastStatus>>

\* a setTimeout(checkStatus, 1000) comes due
FollowUpCheck ==
    /\ timeouts # <<>>
    /\ Head(timeouts) = 0
    /\ checkStatus
    /\ timeouts' = Tail(timeouts)
    /\ lastEvent' = "followup"
    /\ UNCHANGED <<viewVars, activeElement, codeValue, messageVars, buttonVars,
                   statusPollingActive, currentLang, sendInFlight,
                   intervalRemaining, lastStatus>>

\* time passes, no further than the next timer that is due
Advance(d) ==
    /\ d > 0
    /\ d <= intervalRemaining
    /\ \A i \in 1..Len(timeouts) : d <= timeouts[i]
    /\ intervalRemaining' = intervalRemaining - d
    /\ timeouts' = [i \in 1..Len(timeouts) |-> timeouts[i] - d]
    /\ lastEvent' = "time"
    /\ UNCHANGED <<viewVars, activeElement, codeValue, messageVars, buttonVars,
                   statusPollingActive, currentLang, statusInFlight,
                   sendInFlight, lastStatus>>

\* the instants at which the model observes the clock
TimeSteps == { FOLLOWUP_DELAY, STATUS_POLL_INTERVAL }

-----------------------------------------------------------------------------
(* Code submission *)

\* submitForm(), up to and including the call of fetch
submitForm ==
    LET clean == cleanCode(codeValue) IN
    IF Rejected(clean)
    THEN /\ messageClass' = "error-message"
         /\ messageText' = <<t("errorExact6Digits")>>
         /\ messageDisplay' = "block"
         /\ lastEvent' = "submit_invalid"
         /\ UNCHANGED <<viewVars, activeElement, codeValue, buttonVars,
                        sendInFlight, timerVars>>
    ELSE /\ Len(sendInFlight) < MaxSendInFlight
         /\ messageDisplay' = "none"
         /\ UNCHANGED <<messageClass, messageText>>
         /\ submitDisabled' = TRUE
         /\ submitText' = t("sendingButton")
         /\ sendInFlight' = Append(sendInFlight, clean)
         /\ lastEvent' = "submit_sent"
         /\ UNCHANGED <<viewVars, activeElement, codeValue, timerVars>>

\* the keypress listener of the code input, for the Enter key
KeypressEnter ==
    /\ activeElement = "code"
    /\ submitForm
    /\ UNCHANGED <<statusPollingActive, currentLang, statusInFlight, lastStatus>>

\* a click on the submit button; a disabled button receives no click
ClickSubmit ==
    /\ CodeEntryVisible
    /\ ~submitDisabled
    /\ submitForm
    /\ UNCHANGED <<statusPollingActive, currentLang, statusInFlight, lastStatus>>

\* seq without its i-th element
RemoveAt(seq, i) == SubSeq(seq, 1, i - 1) \o SubSeq(seq, i + 1, Len(seq))

\* faulty variant: a successful verification schedules no follow-up check
OnSendSuccess_NoFollowUp ==
    /\ messageClass' = "success-message"
    /\ messageText' = <<t("verificationSuccess")>>
    /\ codeValue' = <<>>
    /\ messageDisplay' = "block"
    /\ UNCHANGED <<viewVars, activeElement, buttonVars, timerVars>>

\* faulty variant: a successful verification switches to the running view itself
OnSendSuccess_ShowsRunning ==
    /\ messageClass' = "success-message"
    /\ messageText' = <<t("verificationSuccess")>>
    /\ codeValue' = <<>>
    /\ Len(timeouts) < MaxTimeouts
    /\ timeouts' = Append(timeouts, FOLLOWUP_DELAY)
    /\ messageDisplay' = "block"
    /\ loadingDisplay' = "none"
    /\ verificationDisplay' = "none"
    /\ runningDisplay' = "block"
    /\ activeElement' = "body"
    /\ UNCHANGED <<buttonVars, intervalRemaining>>

\* .then(data => ...) with data.success true
OnSendSuccess ==
    /\ messageClass' = "success-message"
    /\ messageText' = <<t("verificationSuccess")>>
    /\ codeValue' = <<>>
    /\ Len(timeouts) < MaxTimeouts
    /\ timeouts' = Append(timeouts, FOLLOWUP_DELAY)
    /\ messageDisplay' = "block"
    /\ UNCHANGED <<viewVars, activeElement, buttonVars, intervalRemaining>>

\* .then(data => ...) with data.success false
OnSendRejected ==
    /\ messageClass' = "error-message"
    /\ messageText' = <<t("verificationFailed")>>
    /\ submitDisabled' = FALSE
    /\ submitText' = t("verifyButton")
    /\ messageDisplay' = "block"
    /\ UNCHANGED <<viewVars, activeElement, codeValue, timerVars>>

\* faulty variant: the catch block leaves the button disabled
OnSendCatch_KeepsDisabled(errorMessage) ==
    /\ messageClass' = "error-message"
    /\ messageText' = <<t("sendError")>> \o errorMessage
    /\ messageDisplay' = "block"
    /\ UNCHANGED <<viewVars, activeElement, codeValue, buttonVars, timerVars>>

\* .catch(error => ...), errorMessage being error.message
OnSendCatch(errorMessage) ==
    /\ messageClass' = "error-message"
    /\ messageText' = <<t("sendError")>> \o errorMessage
    /\ messageDisplay' = "block"
    /\ submitDisabled' = FALSE
    /\ submitText' = t("verifyButton")
    /\ UNCHANGED <<viewVars, activeElement, codeValue, timerVars>>

\* non-2xx statuses send_code answers with
HttpErrorStatuses == {500, 503}

\* faulty variant: the error does not carry the status
ServerErrorMessage_NoStatus(status) == <<t("serverError")>>

\* the message of new Error(t('serverError') + response.status)
ServerErrorMessage(status) == <<t("serverError"), ToString(status)>>

\* error.message of a rejected fetch
TransportErrorMessages == { <<"Failed to fetch">> }

\* the parts of a settled POST that every outcome shares
SendSettles(i) ==
    /\ i \in 1..Len(sendInFlight)
    /\ sendInFlight' = RemoveAt(sendInFlight, i)
    /\ UNCHANGED <<statusPollingActive, currentLang, statusInFlight, lastStatus>>

\* send_code answers 200 {"success": true}
SendSuccess(i) ==
    /\ SendSettles(i)
    /\ OnSendSuccess
    /\ lastEvent' = "send_success"

\* send_code answers 200 {"success": false}
SendRejected(i) ==
    /\ SendSettles(i)
    /\ OnSendRejected
    /\ lastEvent' = "send_rejected"

\* send_code answers with a non-2xx status
SendHttpError(i, status) ==
    /\ SendSettles(i)
    /\ OnSendCatch(ServerErrorMessage(status))
    /\ lastEvent' = "send_http_error"

\* the POST fails in transport
SendTransportError(i, errorMessage) ==
    /\ SendSettles(i)
    /\ OnSendCatch(errorMessage)
    /\ lastEvent' = "send_transport_error"

\* send_code answers 2xx with a body response.json() rejects
SendUnparsable(i, errorMessage) ==
    /\ SendSettles(i)
    /\ OnSendCatch(errorMessage)
    /\ lastEvent' = "send_json_error"

\* error.message of a rejected response.json()
JsonErrorMessages == { <<"Unexpected end of JSON input">> }

-----------------------------------------------------------------------------
(* The operator *)

\* the operator replaces the content of the code input
TypeCode(raw) ==
    /\ activeElement = "code"
    /\ codeValue # raw
    /\ codeValue' = raw
    /\ lastEvent' = "user"
    /\ UNCHANGED <<viewVars, activeElement, messageVars, buttonVars,
                   statusPollingActive, currentLang, statusInFlight,
                   sendInFlight, timerVars, lastStatus>>

\* the operator moves the focus out of the code input
BlurCode ==
    /\ activeElement = "code"
    /\ activeElement' = "body"
    /\ lastEvent' = "user"
    /\ UNCHANGED <<viewVars, codeValue, messageVars, buttonVars,
                   statusPollingActive, currentLang, statusInFlight,
                   sendInFlight, timerVars, lastStatus>>

\* the operator moves the focus back into the code input
FocusCode ==
    /\ CodeEntryVisible
    /\ activeElement # "code"
    /\ activeElement' = "code"
    /\ lastEvent' = "user"
    /\ UNCHANGED <<viewVars, codeValue, messageVars, buttonVars,
                   statusPollingActive, currentLang, statusInFlight,
                   sendInFlight, timerVars, lastStatus>>

-----------------------------------------------------------------------------
(* Specifications *)

(* The server: the session state machine behind status and send_code *)

\* the codes submitted to the server: two of six digits, one too short, one
\* with a letter
SubmittedCodes ==
    { <<"1", "2", "3", "4", "5", "6">>, <<"6", "5", "4", "3", "2", "1">>,
      <<"1", "2", "3", "4", "5">>, <<"1", "2", "3", "4", "5", "a">> }

\* the SessionState of a state of the machine
Enter(state, error) ==
    [authenticated |-> state = "AUTHENTICATED",
     requires_2fa |-> state = "AWAITING_2FA",
     last_error |-> error]

\* the state of the machine a SessionState stands for
StateOf(s) ==
    IF s.requires_2fa THEN "AWAITING_2FA"
    ELSE IF s.authenticated THEN "AUTHENTICATED"
    ELSE "UNAUTHENTICATED"

\* reportStatus(): a pure read of SessionState
reportStatus == [requires_2fa |-> StateOf(sessionState) = "AWAITING_2FA"]

\* a status request is answered
ReportStatus ==
    /\ reported' = <<reportStatus.requires_2fa, sessionState>>
    /\ lastEvent' = "report_status"
    /\ UNCHANGED <<sessionState, processing, submitQueue, accepted>>

\* attemptLogin() is invoked, at startup and after a failure: the external
\* login capability is called
AttemptLoginStarts ==
    /\ StateOf(sessionState) = "UNAUTHENTICATED"
    /\ processing = <<>>
    /\ processing' = <<<<"login", <<>>>>>>
    /\ lastEvent' = "login_started"
    /\ UNCHANGED <<sessionState, submitQueue, reported, accepted>>

LoginOutcomes == {"ok", "needs_2fa", "failed"}

\* attemptLogin(): the external login capability returns
attemptLogin(outcome) ==
    /\ processing # <<>>
    /\ Head(processing)[1] = "login"
    /\ processing' = Tail(processing)
    /\ sessionState' =
          CASE outcome = "ok" -> Enter("AUTHENTICATED", <<>>)
            [] outcome = "needs_2fa" -> Enter("AWAITING_2FA", <<>>)
            [] OTHER -> Enter("UNAUTHENTICATED", <<"login failed">>)
    /\ lastEvent' =
          CASE outcome = "ok" -> "login_ok"
            [] outcome = "needs_2fa" -> "login_needs_2fa"
            [] OTHER -> "login_failed"
    /\ UNCHANGED <<submitQueue, reported, accepted>>

\* exactly 6 ASCII digits
ValidCode(code) ==
    /\ Len(code) = CodeLength
    /\ \A i \in 1..Len(code) : code[i] \in Digits

\* faulty variant: a submission is forwarded while another mutation is in flight
submitCode_IgnoresBusy(code) ==
    /\ IF ~ValidCode(code)
         THEN /\ lastEvent' = "submit_rejected"
              /\ UNCHANGED <<processing, submitQueue>>
         ELSE /\ processing' = Append(processing, <<"verify", code>>)
              /\ lastEvent' = "submit_forwarded"
              /\ UNCHANGED submitQueue
    /\ UNCHANGED <<sessionState, reported, accepted>>

\* submitCode(code) arrives: it is rejected by validation, forwarded to the
\* external verification capability, queued, or rejected as busy
submitCode(code) ==
    /\ IF ~ValidCode(code)
         THEN /\ lastEvent' = "submit_rejected"
              /\ UNCHANGED <<processing, submitQueue>>
         ELSE IF processing = <<>> /\ submitQueue = <<>>
         THEN /\ processing' = <<<<"verify", code>>>>
              /\ lastEvent' = "submit_forwarded"
              /\ UNCHANGED submitQueue
         ELSE \/ /\ Len(submitQueue) < MaxQueued
                 /\ submitQueue' = Append(submitQueue, code)
                 /\ lastEvent' = "submit_queued"
                 /\ UNCHANGED processing
              \/ /\ lastEvent' = "submit_busy"
                 /\ UNCHANGED <<processing, submitQueue>>
    /\ UNCHANGED <<sessionState, reported, accepted>>

\* the oldest queued submission takes its turn
QueuedSubmissionStarts ==
    /\ processing = <<>>
    /\ submitQueue # <<>>
    /\ processing' = <<<<"verify", Head(submitQueue)>>>>
    /\ submitQueue' = Tail(submitQueue)
    /\ lastEvent' = "submit_dequeued"
    /\ UNCHANGED <<sessionState, reported, accepted>>

VerificationOutcomes == {"ok", "invalid"}

\* faulty variant: an accepted code leaves the session awaiting verification
VerificationReturns_KeepsAwaiting(outcome) ==
    /\ processing # <<>>
    /\ Head(processing)[1] = "verify"
    /\ outcome = "ok" => StateOf(sessionState) = "AWAITING_2FA"
    /\ processing' = Tail(processing)
    /\ accepted' = IF outcome = "ok" THEN TRUE ELSE accepted
    /\ lastEvent' = IF outcome = "ok" THEN "submit_ok" ELSE "submit_invalid"
    /\ UNCHANGED <<sessionState, submitQueue, reported>>

\* submitCode(code): the external verification capability returns; it
\* accepts a code only while a verification is awaited
VerificationReturns(outcome) ==
    /\ processing # <<>>
    /\ Head(processing)[1] = "verify"
    /\ outcome = "ok" => StateOf(sessionState) = "AWAITING_2FA"
    /\ processing' = Tail(processing)
    /\ IF outcome = "ok"
         THEN /\ sessionState' = [sessionState EXCEPT !.authenticated = TRUE,
                                                      !.requires_2fa = FALSE]
              /\ accepted' = TRUE
              /\ lastEvent' = "submit_ok"
         ELSE /\ lastEvent' = "submit_invalid"
              /\ UNCHANGED <<sessionState, accepted>>
    /\ UNCHANGED <<submitQueue, reported>>

\* faulty variant: the re-entry leaves the session marked authenticated
SessionExpires_KeepsAuthenticated ==
    /\ StateOf(sessionState) = "AUTHENTICATED"
    /\ processing = <<>>
    /\ sessionState' = [sessionState EXCEPT !.requires_2fa = TRUE]
    /\ accepted' = FALSE
    /\ lastEvent' = "session_expired"
    /\ UNCHANGED <<processing, submitQueue, reported>>

\* the re-entry transition: the remote session expires or the credentials
\* are rejected later
SessionExpires ==
    /\ StateOf(sessionState) = "AUTHENTICATED"
    /\ processing = <<>>
    /\ sessionState' = Enter("AWAITING_2FA", sessionState.last_error)
    /\ accepted' = FALSE
    /\ lastEvent' = "session_expired"
    /\ UNCHANGED <<processing, submitQueue, reported>>

\* the server at process start: SessionState is created unauthenticated
InitServer ==
    /\ sessionState = Enter("UNAUTHENTICATED", <<>>)
    /\ processing = <<>>
    /\ submitQueue = <<>>
    /\ reported = <<>>
    /\ accepted = FALSE

-----------------------------------------------------------------------------
\* the state after the DOMContentLoaded listener has run: updateLanguage,
\* then startStatusPolling (the initial checkStatus and setInterval)
InitFrom(locales) ==
    /\ PageMarkup
    /\ statusPollingActive = TRUE
    /\ navigatorLanguage \in locales
    /\ currentLang = detectLanguage(navigatorLanguage)
    /\ translated = <<>>
    /\ submitText = translations[currentLang]["verifyButton"]
    /\ statusInFlight = 1
    /\ sendInFlight = <<>>
    /\ intervalRemaining = STATUS_POLL_INTERVAL
    /\ timeouts = <<>>
    /\ lastEvent = "load"
    /\ lastStatus = <<>>
    /\ InitServer
    /\ statusPending = <<<<>>>>
    /\ superseded = 0

Init == InitFrom(BrowserLangs)

Next ==
    \/ /\ StatusSettles
       /\ UNCHANGED envVars
    \/ /\ PollTick
       /\ UNCHANGED envVars
    \/ /\ FollowUpCheck
       /\ UNCHANGED envVars
    \/ /\ \E d \in TimeSteps : Advance(d)
       /\ UNCHANGED envVars
    \/ /\ \E raw \in RawInputs : TypeCode(raw)
       /\ UNCHANGED envVars
    \/ /\ BlurCode
       /\ UNCHANGED envVars
    \/ /\ FocusCode
       /\ UNCHANGED envVars
    \/ /\ KeypressEnter
       /\ UNCHANGED envVars
    \/ /\ ClickSubmit
       /\ UNCHANGED envVars
    \/ /\ \E i \in 1..MaxSendInFlight : SendSuccess(i)
       /\ UNCHANGED envVars
    \/ /\ \E i \in 1..MaxSendInFlight : SendRejected(i)
       /\ UNCHANGED envVars
    \/ /\ \E i \in 1..MaxSendInFlight, status \in HttpErrorStatuses : SendHttpError(i, status)
       /\ UNCHANGED envVars
    \/ /\ \E i \in 1..MaxSendInFlight, m \in TransportErrorMessages : SendTransportError(i, m)
       /\ UNCHANGED envVars
    \/ /\ \E i \in 1..MaxSendInFlight, m \in JsonErrorMessages : SendUnparsable(i, m)
       /\ UNCHANGED envVars

Spec == Init /\ [][Next]_vars

\* The exhaustive input specification: the verification view is shown, the
\* operator has typed any raw input of at most MaxRawLen characters, and
\* submits it.
InitInput ==
    /\ loadingDisplay = "none"
    /\ runningDisplay = "none"
    /\ verificationDisplay = "block"
    /\ activeElement = "code"
    /\ codeValue \in AllRaw
    /\ messageClass = ""
    /\ messageText = <<>>
    /\ messageDisplay = "none"
    /\ submitDisabled = FALSE
    /\ statusPollingActive = TRUE
    /\ navigatorLanguage = <<"e", "n", "-", "U", "S">>
    /\ currentLang = detectLanguage(navigatorLanguage)
    /\ translated = <<>>
    /\ submitText = translations[currentLang]["verifyButton"]
    /\ statusInFlight = 0
    /\ sendInFlight = <<>>
    /\ intervalRemaining = STATUS_POLL_INTERVAL
    /\ timeouts = <<>>
    /\ lastEvent = "user"
    /\ lastStatus = <<TRUE>>
    /\ InitServer
    /\ statusPending = <<>>
    /\ superseded = 0

NextInput ==
    \/ /\ KeypressEnter
       /\ UNCHANGED envVars
    \/ /\ ClickSubmit
       /\ UNCHANGED envVars

SpecInput == InitInput /\ [][NextInput]_vars

\* keys t is applied to in the language specification: the keys of the
\* tables and one that no table holds
TranslateKeys == DOMAIN translations["en"] \cup {"unknownKey"}

\* t(key) is evaluated
Translate(key) ==
    /\ translated = <<>>
    /\ translated' = <<key, t(key)>>
    /\ lastEvent' = "translate"
    /\ UNCHANGED <<pageVars, navigatorLanguage, serverVars, syncVars>>

\* The language specification: the page is loaded in a browser of any
\* locale of at most MaxLocaleLen characters, and a text is looked up.
InitLang == InitFrom(AllLocales)

NextLang == \E key \in TranslateKeys : Translate(key)

SpecLang == InitLang /\ [][NextLang]_vars

\* The server specification: the session state machine under any schedule
\* of logins, submissions, expiries and status reads; the page is left alone.
NextServer ==
    \/ /\ ReportStatus
       /\ UNCHANGED <<pageVars, langVars, syncVars>>
    \/ /\ AttemptLoginStarts
       /\ UNCHANGED <<pageVars, langVars, syncVars>>
    \/ /\ \E outcome \in LoginOutcomes : attemptLogin(outcome)
       /\ UNCHANGED <<pageVars, langVars, syncVars>>
    \/ /\ \E code \in SubmittedCodes : submitCode(code)
       /\ UNCHANGED <<pageVars, langVars, syncVars>>
    \/ /\ QueuedSubmissionStarts
       /\ UNCHANGED <<pageVars, langVars, syncVars>>
    \/ /\ \E outcome \in VerificationOutcomes : VerificationReturns(outcome)
       /\ UNCHANGED <<pageVars, langVars, syncVars>>
    \/ /\ SessionExpires
       /\ UNCHANGED <<pageVars, langVars, syncVars>>

SpecServer == Init /\ [][NextServer]_vars

\* The page and the server together: every status request is followed from
\* its issue, through the server's answer, to the handler of its response.
\* Responses settle in any order, as fetch promises do.  The user types a
\* well-formed code and presses Enter while no submission is pending, and
\* the submission is accepted: the path that schedules the follow-up check.

\* the session as the page's status requests meet it: a login, an accepted
\* code or an expiry moves the machine to AWAITING_2FA or to AUTHENTICATED
SessionMoves ==
    /\ \E state \in {"AWAITING_2FA", "AUTHENTICATED"} :
          /\ state # StateOf(sessionState)
          /\ sessionState' = Enter(state, <<>>)
    /\ UNCHANGED <<lastEvent, pageVars, langVars, processing, submitQueue, reported,
                   accepted, syncVars>>

\* the status endpoint answers the i-th unsettled request with reportStatus()
StatusAnswered(i) ==
    /\ statusPending[i] = <<>>
    /\ statusPending' = [statusPending EXCEPT ![i] = <<reportStatus.requires_2fa>>]
    /\ UNCHANGED <<lastEvent, pageVars, langVars, serverVars, superseded>>

\* the interval callback issues the newest status request
PollTickIssues ==
    /\ PollTick
    /\ statusPending' = IF statusInFlight' > statusInFlight
                          THEN Append(statusPending, <<>>)
                          ELSE statusPending
    /\ UNCHANGED <<langVars, serverVars, superseded>>

\* the follow-up check issues the newest status request
FollowUpCheckIssues ==
    /\ FollowUpCheck
    /\ statusPending' = Append(statusPending, <<>>)
    /\ UNCHANGED <<langVars, serverVars, superseded>>

\* the response to the i-th unsettled request is handled: the requests
\* issued before it are from now on older than an applied one
StatusResponseOf(i) ==
    /\ statusPending[i] # <<>>
    /\ StatusResponse([requires_2fa |-> statusPending[i][1]])
    /\ statusPending' = RemoveAt(statusPending, i)
    /\ superseded' = IF i > superseded THEN i - 1 ELSE superseded - 1
    /\ UNCHANGED <<langVars, serverVars>>

\* the i-th unsettled request fails
StatusFailureOf(i, kind) ==
    /\ StatusFailure(kind)
    /\ statusPending' = RemoveAt(statusPending, i)
    /\ superseded' = IF i > superseded THEN superseded ELSE superseded - 1
    /\ UNCHANGED <<langVars, serverVars>>

NextSync ==
    \/ SessionMoves
    \/ \E i \in 1..Len(statusPending) : StatusAnswered(i)
    \/ PollTickIssues
    \/ FollowUpCheckIssues
    \/ \E i \in 1..Len(statusPending) : StatusResponseOf(i)
    \/ \E i \in 1..Len(statusPending), kind \in StatusFailures : StatusFailureOf(i, kind)
    \/ /\ \E d \in TimeSteps : Advance(d)
       /\ UNCHANGED envVars
    \/ /\ TypeCode(<<"1", "2", "3", "-", "4", "5", "6">>)
       /\ UNCHANGED envVars
    \/ /\ sendInFlight = <<>>
       /\ KeypressEnter
       /\ UNCHANGED envVars
    \/ /\ \E i \in 1..MaxSendInFlight : SendSuccess(i)
       /\ UNCHANGED envVars

\* the page is loaded in one browser
InitSync == InitFrom({<<"e", "n", "-", "U", "S">>})

SpecSync == InitSync /\ [][NextSync]_vars

\* The page and the server under the scheduling the browser and the server
\* guarantee: a timer that is due fires, time passes, the server answers a
\* request, and a fetch settles.
LiveSpecSync ==
    /\ SpecSync
    /\ WF_vars(PollTickIssues)
    /\ WF_vars(FollowUpCheckIssues)
    /\ WF_vars((\E d \in TimeSteps : Advance(d)) /\ UNCHANGED envVars)
    /\ WF_vars(\E i \in 1..Len(statusPending) : StatusAnswered(i))
    /\ WF_vars(\/ \E i \in 1..Len(statusPending) : StatusResponseOf(i)
               \/ \E i \in 1..Len(statusPending), kind \in StatusFailures :
                    StatusFailureOf(i, kind))

\* The poll loop under the scheduling the browser guarantees: a timer that
\* is due fires, time passes, and a fetch settles.
LiveSpec ==
    /\ Spec
    /\ WF_vars(PollTick /\ UNCHANGED envVars)
    /\ WF_vars(FollowUpCheck /\ UNCHANGED envVars)
    /\ WF_vars((\E d \in TimeSteps : Advance(d)) /\ UNCHANGED envVars)
    /\ WF_vars(StatusSettles /\ UNCHANGED envVars)

-----------------------------------------------------------------------------
(* Vocabulary of the properties *)

LOADING == loadingDisplay = "block"
NEEDS_CODE == verificationDisplay = "block"
RUNNING == runningDisplay = "block"

\* the views that are displayed
Displayed ==
    {v \in {"LOADING", "NEEDS_CODE", "RUNNING"} :
        \/ v = "LOADING" /\ LOADING
        \/ v = "NEEDS_CODE" /\ NEEDS_CODE
        \/ v = "RUNNING" /\ RUNNING}

\* the digit-only remainder of a raw input: its digits, in their order
RECURSIVE DigitOnlyRemainder(_)
DigitOnlyRemainder(raw) ==
    IF raw = <<>> THEN <<>>
    ELSE IF Head(raw) \in {"0", "1", "2", "3", "4", "5", "6", "7", "8", "9"}
         THEN <<Head(raw)>> \o DigitOnlyRemainder(Tail(raw))
         ELSE DigitOnlyRemainder(Tail(raw))

\* submitForm is the handler that ran in this step
SubmitFormRan == lastEvent' \in {"submit_invalid", "submit_sent"}

\* the outcomes of a send_code request
SendOutcomes ==
    {"send_success", "send_rejected", "send_http_error",
     "send_transport_error", "send_json_error"}

\* the validation message is shown as an error
ValidationErrorShown ==
    /\ messageClass = "error-message"
    /\ messageText = <<translations[currentLang]["errorExact6Digits"]>>
    /\ messageDisplay = "block"

-----------------------------------------------------------------------------
(* C1: at most one POST to send_code is unsettled at any time.  The Enter  *)
(* key runs submitForm while the button is disabled, so this fails.        *)
C1_AtMostOneSendInFlight == Len(sendInFlight) <= 1

(* C2: a raw input whose digit-only remainder does not have 6 digits makes *)
(* submitForm issue no request and show the validation message as error.   *)
C2_InvalidInputRejectedLocally ==
    [][SubmitFormRan /\ Len(DigitOnlyRemainder(codeValue)) # 6
         => /\ sendInFlight' = sendInFlight
            /\ ValidationErrorShown']_vars

C2_Witness ==
    /\ lastEvent = "submit_invalid"
    /\ Len(DigitOnlyRemainder(codeValue)) = 7
    /\ sendInFlight = <<>>
    /\ ValidationErrorShown

(* C3: after every outcome of a send_code request the submit control is    *)
(* enabled again.  The success branch never re-enables it, so this fails.  *)
C3_EnabledAfterEveryOutcome ==
    lastEvent \in SendOutcomes /\ sendInFlight = <<>> => ~submitDisabled

(* C4: a failed status request (transport error, non-2xx, unparsable body) *)
(* leaves the displayed view as it was and shows no error.                 *)
C4_FailedStatusKeepsView ==
    [][lastEvent' \in StatusFailures => UNCHANGED <<viewVars, messageVars>>]_vars

C4_Witness ==
    /\ lastEvent = "status_transport"
    /\ Displayed = {"RUNNING"}
    /\ lastStatus = <<FALSE>>

(* C5: the poll loop never halts itself: the polling flag stays set, every *)
(* tick of the interval issues a status request and re-arms the interval   *)
(* at 2000 ms, and ticks occur infinitely often.                           *)
C5_PollLoopNeverHalts ==
    /\ [](statusPollingActive /\ intervalRemaining <= STATUS_POLL_INTERVAL)
    /\ [][lastEvent' \in {"poll", "poll_skipped"}
            => /\ lastEvent' = "poll"
               /\ intervalRemaining = 0
               /\ statusInFlight' = statusInFlight + 1
               /\ intervalRemaining' = STATUS_POLL_INTERVAL]_vars
    /\ []<>(lastEvent = "poll")

\* a tick issues a request although no status request has succeeded so far
\* and the initial one has failed
C5_Witness ==
    /\ lastEvent = "poll"
    /\ lastStatus = <<>>
    /\ statusInFlight = 1
    /\ Displayed = {"LOADING"}

(* C6: never are two of the views displayed together, and after a status   *)
(* response has been processed exactly one is: NEEDS_CODE when it reported *)
(* requires_2fa true, RUNNING when it reported false.                      *)
C6_ViewsMutuallyExclusive ==
    /\ Cardinality(Displayed) <= 1
    /\ lastEvent = "status_ok"
         => Displayed = IF lastStatus = <<TRUE>> THEN {"NEEDS_CODE"} ELSE {"RUNNING"}

\* a status response reporting requires_2fa true is processed after a
\* verification has succeeded
C6_Witness ==
    /\ lastEvent = "status_ok"
    /\ lastStatus = <<TRUE>>
    /\ Displayed = {"NEEDS_CODE"}
    /\ activeElement = "code"
    /\ messageClass = "success-message"

(* C7: on success true the success message is shown, the code input is     *)
(* cleared, and exactly one status check is scheduled 1000 ms later, the   *)
(* interval being left as it is; that check is issued when it comes due.   *)
C7_SuccessSchedulesFollowUp ==
    /\ [][lastEvent' = "send_success"
            => /\ messageClass' = "success-message"
               /\ messageText' = <<translations[currentLang]["verificationSuccess"]>>
               /\ messageDisplay' = "block"
               /\ codeValue' = <<>>
               /\ timeouts' = Append(timeouts, 1000)
               /\ intervalRemaining' = intervalRemaining
               /\ statusInFlight' = statusInFlight]_vars
    /\ [][lastEvent' = "followup"
            => /\ Head(timeouts) = 0
               /\ timeouts' = Tail(timeouts)
               /\ statusInFlight' = statusInFlight + 1
               /\ intervalRemaining' = intervalRemaining]_vars

C7_Witness ==
    /\ lastEvent = "send_success"
    /\ messageClass = "success-message"
    /\ messageDisplay = "block"
    /\ codeValue = <<>>
    /\ timeouts = <<1000>>
    /\ intervalRemaining = 2000

(* C8: on success false and on a transport failure an error message is     *)
(* shown, the submit control is enabled and carries the verify text, and   *)
(* the code input keeps its content; the rejected code's message is the    *)
(* verificationFailed text, the transport failure's message is the         *)
(* sendError text followed by the error's text, and the two differ.        *)
C8_FailureKeepsInput ==
    [][lastEvent' \in {"send_rejected", "send_transport_error"}
         => /\ messageClass' = "error-message"
            /\ messageDisplay' = "block"
            /\ ~submitDisabled'
            /\ submitText' = translations[currentLang]["verifyButton"]
            /\ codeValue' = codeValue
            /\ timeouts' = timeouts
            /\ lastEvent' = "send_rejected"
                 => messageText' = <<translations[currentLang]["verificationFailed"]>>
            /\ lastEvent' = "send_transport_error"
                 => /\ Len(messageText') > 1
                    /\ Head(messageText') = translations[currentLang]["sendError"]
                    /\ Tail(messageText') \in TransportErrorMessages
                    /\ messageText' # <<translations[currentLang]["verificationFailed"]>>]_vars

C8_Witness ==
    /\ lastEvent = "send_transport_error"
    /\ messageText = <<"Send error: ", "Failed to fetch">>
    /\ ~submitDisabled
    /\ codeValue = <<"1", "2", "3", "-", "4", "5", "6">>
    /\ sendInFlight = <<>>

(* C9: a raw input whose digit-only remainder has exactly 6 digits makes   *)
(* submitForm issue exactly one POST, its code field being that remainder. *)
C9_ValidInputPostedOnce ==
    [][SubmitFormRan /\ Len(DigitOnlyRemainder(codeValue)) = 6
         => sendInFlight' = Append(sendInFlight, DigitOnlyRemainder(codeValue))]_vars

C9_Witness ==
    /\ lastEvent = "submit_sent"
    /\ codeValue = <<"1", "2", "-", "2", "1", "1", "2">>
    /\ sendInFlight = << <<"1", "2", "2", "1", "1", "2">> >>

(* C10: the displayed view changes only when a status response is          *)
(* processed and always is the view of the last processed response; no     *)
(* step of submitForm or of a send_code outcome changes it, and the        *)
(* code-entry view is left only on a response reporting requires_2fa false.*)
C10_ViewOnlyFromStatus ==
    /\ [](Displayed = IF lastStatus = <<>> THEN {"LOADING"}
                      ELSE IF lastStatus = <<TRUE>> THEN {"NEEDS_CODE"}
                      ELSE {"RUNNING"})
    /\ [][viewVars' # viewVars => lastEvent' = "status_ok"]_vars
    /\ [][lastEvent' \in SendOutcomes \cup {"submit_invalid", "submit_sent"}
            => viewVars' = viewVars]_vars
    /\ [][NEEDS_CODE /\ ~NEEDS_CODE'
            => lastEvent' = "status_ok" /\ lastStatus' = <<FALSE>>]_vars

\* after a successful send_code the code-entry view is still displayed
C10_Witness ==
    /\ lastEvent = "send_success"
    /\ Displayed = {"NEEDS_CODE"}
    /\ lastStatus = <<TRUE>>
    /\ sendInFlight = <<>>

\* the decimal numeral of an HTTP status
StatusNumeral(status) ==
    CASE status = 500 -> "500" [] status = 503 -> "503" [] OTHER -> "?"

(* C12: a non-2xx answer of send_code is an error: the message shown is an *)
(* error message that ends in the numeral of the HTTP status, it is not    *)
(* the success message, the input keeps its content, no follow-up check is *)
(* scheduled, and the submit control is enabled.                           *)
C12_Non2xxIsError ==
    /\ [][lastEvent' = "send_http_error"
            => /\ messageClass' = "error-message"
               /\ messageDisplay' = "block"
               /\ messageText' # <<translations[currentLang]["verificationSuccess"]>>
               /\ codeValue' = codeValue
               /\ timeouts' = timeouts
               /\ ~submitDisabled'
               /\ submitText' = translations[currentLang]["verifyButton"]]_vars
    /\ [][\A i \in 1..MaxSendInFlight, status \in HttpErrorStatuses :
            SendHttpError(i, status)
              => messageText' = <<translations[currentLang]["sendError"],
                                  translations[currentLang]["serverError"],
                                  StatusNumeral(status)>>]_vars

C12_Witness ==
    /\ lastEvent = "send_http_error"
    /\ messageClass = "error-message"
    /\ messageText = <<"Send error: ", "Server error: ", "503">>
    /\ ~submitDisabled
    /\ codeValue = <<"1", "2", "3", "-", "4", "5", "6">>
    /\ timeouts = <<>>

(* C17: LOADING is displayed exactly as long as no status response has     *)
(* been processed, failed status requests included, and once it is hidden  *)
(* it is never displayed again.                                            *)
C17_LoadingUntilFirstStatus ==
    /\ [](LOADING <=> lastStatus = <<>>)
    /\ [][lastEvent' = "status_ok" => ~LOADING']_vars
    /\ [][~LOADING => ~LOADING']_vars

\* the loading view is still displayed after a failed status request
C17_Witness ==
    /\ lastEvent \in StatusFailures
    /\ lastStatus = <<>>
    /\ Displayed = {"LOADING"}
    /\ statusInFlight = 0

\* lower case of the letters of LocaleAlphabet
FoldCase(c) == IF c = "D" THEN "d" ELSE IF c = "E" THEN "e" ELSE c

\* the primary subtag of a locale: what precedes its first hyphen, in lower case
RECURSIVE PrimarySubtag(_)
PrimarySubtag(locale) ==
    IF locale = <<>> THEN <<>>
    ELSE IF Head(locale) = "-" THEN <<>>
    ELSE <<FoldCase(Head(locale))>> \o PrimarySubtag(Tail(locale))

\* the variant a locale selects: its primary subtag when supported, else en
VariantOf(locale) ==
    IF PrimarySubtag(locale) = <<"d", "e">> THEN "de" ELSE "en"

\* the text of a key in a variant: the variant's, else the English, else the key
TextOf(variant, key) ==
    IF key \in DOMAIN translations[variant] THEN translations[variant][key]
    ELSE IF key \in DOMAIN translations["en"] THEN translations["en"][key]
    ELSE key

(* C13: the detected language is the locale's primary subtag when that is  *)
(* en or de and en otherwise, and t(key) is the detected variant's text    *)
(* when it has the key, else the English text, else the key itself.        *)
C13_LanguageFallback ==
    /\ currentLang = VariantOf(navigatorLanguage)
    /\ translated # <<>> => translated[2] = TextOf(currentLang, translated[1])

\* an upper-case German locale selects de, and a key no table holds is
\* returned as it is
C13_Witness ==
    /\ navigatorLanguage = <<"D", "E", "-", "d", "e">>
    /\ currentLang = "de"
    /\ translated = <<"unknownKey", "unknownKey">>

(* C14: in every reachable SessionState, requires_2fa being true implies   *)
(* authenticated being false, whatever logins, submissions and re-entries  *)
(* led to it.                                                              *)
C14_AwaitingIsNotAuthenticated ==
    sessionState.requires_2fa => ~sessionState.authenticated

\* the session has been re-entered into AWAITING_2FA after an expiry
C14_Witness ==
    /\ lastEvent = "session_expired"
    /\ sessionState.requires_2fa
    /\ ~sessionState.authenticated

(* C15: once a submitCode has succeeded, every later reportStatus reports  *)
(* requires_2fa false until the session re-enters AWAITING_2FA; and a      *)
(* reportStatus that finds the SessionState its predecessor read returns   *)
(* the value its predecessor returned.                                     *)
C15_AcceptedCodeStaysReported ==
    /\ [][lastEvent' = "report_status" /\ accepted'
            => reported'[1] = FALSE]_vars
    /\ [][lastEvent' = "report_status" /\ reported # <<>>
                                       /\ reported[2] = sessionState
            => reported'[1] = reported[1]]_vars

\* a status read after an accepted code
C15_Witness ==
    /\ lastEvent = "report_status"
    /\ accepted
    /\ StateOf(sessionState) = "AUTHENTICATED"
    /\ reported = <<FALSE, sessionState>>

\* the server steps at which a submitCode arrives
SubmitArrivals ==
    {"submit_rejected", "submit_forwarded", "submit_queued", "submit_busy"}

\* the server steps that complete a transition of the session
CompletedTransitions ==
    {"login_ok", "login_needs_2fa", "login_failed", "submit_ok",
     "session_expired"}

\* the SessionStates of the three states of the machine
WholeStates ==
    { s \in [authenticated : BOOLEAN, requires_2fa : BOOLEAN,
             last_error : {<<>>, <<"login failed">>}] :
        ~(s.authenticated /\ s.requires_2fa) }

(* C16: code submissions are serialized: a submitCode arriving while a     *)
(* mutation is in flight is queued or rejected (as busy, or by validation) *)
(* and leaves the one in flight and the session alone; at most one         *)
(* mutation is in flight; the session changes only in the step that        *)
(* completes a transition, and a reportStatus returns the value of the     *)
(* whole state it finds.                                                   *)
C16_SubmissionsSerialized ==
    /\ [][lastEvent' \in SubmitArrivals /\ processing # <<>>
            => /\ lastEvent' \in {"submit_queued", "submit_busy", "submit_rejected"}
               /\ processing' = processing
               /\ sessionState' = sessionState]_vars
    /\ [](Len(processing) <= 1)
    /\ [][sessionState' # sessionState
            => /\ lastEvent' \in CompletedTransitions
               /\ processing' = <<>>
               /\ sessionState' \in WholeStates]_vars
    /\ [][lastEvent' = "report_status"
            => /\ reported'[2] = sessionState
               /\ reported'[2] \in WholeStates
               /\ reported'[1] = reported'[2].requires_2fa]_vars

\* a status is read while one submission is at the verifier and another waits
C16_Witness ==
    /\ lastEvent = "report_status"
    /\ processing = <<<<"verify", <<"1", "2", "3", "4", "5", "6">>>>>>
    /\ submitQueue = <<<<"6", "5", "4", "3", "2", "1">>>>
    /\ reported = <<TRUE, sessionState>>

\* the view that matches a value of requires_2fa
ViewFor(requires_2fa) == IF requires_2fa THEN {"NEEDS_CODE"} ELSE {"RUNNING"}

(* C11: if from some point on the server's reported requires_2fa no longer *)
(* changes and no status request fails, then from some point on the page   *)
(* displays the matching view, NEEDS_CODE iff requires_2fa, and keeps it.  *)
C11_ViewFollowsServer ==
    \A b \in BOOLEAN :
        <>[](reportStatus.requires_2fa = b /\ lastEvent \notin StatusFailures)
            => <>[](Displayed = ViewFor(b))

\* the page shows the running view of an authenticated session after it
\* had asked for the code, and no status request is left unsettled
C11_Witness ==
    /\ lastEvent = "status_ok"
    /\ StateOf(sessionState) = "AUTHENTICATED"
    /\ Displayed = {"RUNNING"}
    /\ messageText = <<translations[currentLang]["verificationSuccess"]>>
    /\ statusPending = <<>>

(* C18: status responses are applied in the order their requests were      *)
(* issued: the response to a request issued before one whose response has  *)
(* been applied does not change the view.  Nothing orders the handlers of  *)
(* the fetch promises, so this fails.                                      *)
C18_ResponsesAppliedInIssueOrder ==
    [][lastEvent' = "status_ok" /\ superseded' < superseded
         => UNCHANGED viewVars]_vars

====
